---- MODULE Spec2Model ----
(***************************************************************************)
(* Model of the log outlier pipeline: ESVectorize turns raw log hits into  *)
(* hourly count vectors, ESAnalyze.data_clean clips the training vectors   *)
(* to a percentile band and ESAnalyze.outlier_detection compares the test  *)
(* day with the training data of the same weekday by FFT amplitudes.       *)
(*                                                                         *)
(* Numbers.  numpy float64 values are modelled as fixed-point integers:    *)
(* vector slots in units of 1/FP, FFT magnitudes in units of 1/1000, the   *)
(* difference metric in units of 1/DQ.  The IEEE results inf and nan of a  *)
(* division by zero are modelled as such (records with kind "inf", "nan"). *)
(***************************************************************************)
EXTENDS Integers, Sequences, FiniteSets, TLC

(***************************************************************************)
(* esconstants.py                                                          *)
(***************************************************************************)
TEST_DAY == 1
NUM_DAYS == 31
NUM_BUCKETS == 25
LOW_PC == 1
HIGH_PC == 99
FFT_ANALYSIS_DEPTH == 5
FFT_COMPONENT_WEIGHT == 2

\* Fixed-point units: a vector slot is held in units of 1/FP (a multiple
\* of the divisors 100 of the percentile ranks and 2, 3, 4 of the averages),
\* the difference metric in units of 1/DQ.  FFT magnitudes are in units of
\* 1/1000, the unit of CosTab.
FP == 1200
DQ == 1000

\* FFT_TEST_DIFF_THRESHOLD = 0.5 and FFT_POINT_DIFF_THRESHOLD = 0.25.
FFT_TEST_DIFF_THRESHOLD == DQ \div 2
FFT_POINT_DIFF_THRESHOLD == DQ \div 4

\* range(esconstants.NUM_BUCKETS - 1): the hour slots of a count vector.
Hours == 0..(NUM_BUCKETS - 2)

(***************************************************************************)
(* Arithmetic helpers                                                      *)
(***************************************************************************)
Abs(x) == IF x < 0 THEN -x ELSE x

RoundDiv(x, d) ==
  IF x >= 0 THEN (2 * x + d) \div (2 * d) ELSE -((2 * (-x) + d) \div (2 * d))

RECURSIVE SqrtSearch(_, _, _)
SqrtSearch(n, lo, hi) ==
  IF lo >= hi THEN lo
  ELSE LET mid == (lo + hi + 1) \div 2
       IN IF mid * mid <= n THEN SqrtSearch(n, mid, hi)
          ELSE SqrtSearch(n, lo, mid - 1)

ISqrt(n) == SqrtSearch(n, 0, 46340)

\* abs() of a complex number, kept inside 32-bit integers.
RECURSIVE Hypot(_, _)
Hypot(re, im) ==
  IF Abs(re) <= 32000 /\ Abs(im) <= 32000 THEN ISqrt(re * re + im * im)
  ELSE 2 * Hypot(RoundDiv(re, 2), RoundDiv(im, 2))

\* cos(m * 2 pi / 24) and sin(m * 2 pi / 24) in units of 1/1000.
CosTab == <<1000, 966, 866, 707, 500, 259, 0>>

Cos24(m) ==
  LET r == m % 24
  IN IF r <= 6 THEN CosTab[r + 1]
     ELSE IF r <= 12 THEN -CosTab[12 - r + 1]
     ELSE IF r <= 18 THEN -CosTab[r - 12 + 1]
     ELSE CosTab[24 - r + 1]

Sin24(m) == Cos24(m + 18)

(***************************************************************************)
(* numpy arrays: a count vector is a record of its element type and its    *)
(* 24 values (units of 1/FP).                                              *)
(***************************************************************************)
IntArr(f) == [dtype |-> "int", v |-> f]
FloatArr(f) == [dtype |-> "float", v |-> f]

\* Storing a float64 into an int array truncates it (values are >= 0).
Trunc(x) == (x \div FP) * FP

SetItem(arr, i, x) ==
  [arr EXCEPT !.v[i] = IF arr.dtype = "int" THEN Trunc(x) ELSE x]

(***************************************************************************)
(* scipy.fftpack.fft: magnitude of component k of the transform of x.      *)
(***************************************************************************)
\* cos((m + shift) * 2 pi / 24) by table; shift 18 turns it into sin.
TrigTab == [m \in 0..23 |-> Cos24(m)]

\* Sum over the 24 slots n of x[n] * cos((n * k + shift) * 2 pi / 24), written
\* out term by term.
DotTrig(x, k, shift) ==
  x[0] * TrigTab[(0 * k + shift) % 24]
  + x[1] * TrigTab[(1 * k + shift) % 24]
  + x[2] * TrigTab[(2 * k + shift) % 24]
  + x[3] * TrigTab[(3 * k + shift) % 24]
  + x[4] * TrigTab[(4 * k + shift) % 24]
  + x[5] * TrigTab[(5 * k + shift) % 24]
  + x[6] * TrigTab[(6 * k + shift) % 24]
  + x[7] * TrigTab[(7 * k + shift) % 24]
  + x[8] * TrigTab[(8 * k + shift) % 24]
  + x[9] * TrigTab[(9 * k + shift) % 24]
  + x[10] * TrigTab[(10 * k + shift) % 24]
  + x[11] * TrigTab[(11 * k + shift) % 24]
  + x[12] * TrigTab[(12 * k + shift) % 24]
  + x[13] * TrigTab[(13 * k + shift) % 24]
  + x[14] * TrigTab[(14 * k + shift) % 24]
  + x[15] * TrigTab[(15 * k + shift) % 24]
  + x[16] * TrigTab[(16 * k + shift) % 24]
  + x[17] * TrigTab[(17 * k + shift) % 24]
  + x[18] * TrigTab[(18 * k + shift) % 24]
  + x[19] * TrigTab[(19 * k + shift) % 24]
  + x[20] * TrigTab[(20 * k + shift) % 24]
  + x[21] * TrigTab[(21 * k + shift) % 24]
  + x[22] * TrigTab[(22 * k + shift) % 24]
  + x[23] * TrigTab[(23 * k + shift) % 24]

FftAbs(x, k) ==
  Hypot(RoundDiv(DotTrig(x, k, 0), FP), RoundDiv(DotTrig(x, k, 18), FP))

\* The magnitudes of the components that _fft_amplitude_diff reads.
Fft(x) == [k \in 0..(FFT_ANALYSIS_DEPTH - 1) |-> FftAbs(x, k)]

(***************************************************************************)
(* float64 results                                                         *)
(***************************************************************************)
Fin(x) == [kind |-> "fin", x |-> x]
Inf == [kind |-> "inf", x |-> 0]
NaN == [kind |-> "nan", x |-> 0]

\* a / b for a >= 0, b >= 0: numpy gives inf or nan when b is 0.
FloatDiv(a, b) ==
  IF b = 0 THEN (IF a = 0 THEN NaN ELSE Inf) ELSE Fin((a * DQ) \div b)

\* FloatLess with the comparison turned around.
FloatGreater(d, t) == d.kind = "fin" /\ d.x > t

\* d < t for a finite t; false for inf and nan.
FloatLess(d, t) == d.kind = "fin" /\ d.x < t

\* (d - di) / d > t for a finite t; the quotient is nan, hence the
\* comparison false, as soon as d is inf or nan, di is nan, or d is 0.
RelGain(d, di, t) ==
  /\ d.kind = "fin"
  /\ di.kind = "fin"
  /\ d.x > 0
  /\ (d.x - di.x) * DQ > t * d.x

(***************************************************************************)
(* ESAnalyze._fft_amplitude_diff                                           *)
(***************************************************************************)
RECURSIVE Pow(_, _)
Pow(b, e) == IF e = 0 THEN 1 ELSE b * Pow(b, e - 1)

\* sum(freq_diffs), times the last weight so that it stays an integer.
RECURSIVE FreqDiffs(_, _, _)
FreqDiffs(test, train, i) ==
  IF i = FFT_ANALYSIS_DEPTH THEN 0
  ELSE Abs(test[i] - train[i])
         * Pow(FFT_COMPONENT_WEIGHT, FFT_ANALYSIS_DEPTH - 1 - i)
       + FreqDiffs(test, train, i + 1)

\* FftAmplitudeDiff divided by the magnitude of the first training
\* component.
FftAmplitudeDiffByFirst(test, train) ==
  FloatDiv(FreqDiffs(test, train, 0),
           Pow(FFT_COMPONENT_WEIGHT, FFT_ANALYSIS_DEPTH - 1)
             * FFT_ANALYSIS_DEPTH * train[0])

\* After the loop i is FFT_ANALYSIS_DEPTH - 1, so the divisor is the
\* magnitude of the last examined training component.
FftAmplitudeDiff(test, train) ==
  FloatDiv(FreqDiffs(test, train, 0),
           Pow(FFT_COMPONENT_WEIGHT, FFT_ANALYSIS_DEPTH - 1)
             * FFT_ANALYSIS_DEPTH * train[FFT_ANALYSIS_DEPTH - 1])

(***************************************************************************)
(* Dictionaries are functions; a missing key is a KeyError.  Keys are      *)
(* visited in the order of these sequences.                                *)
(***************************************************************************)
TypeOrder == <<"ossec", "syslog", "suricata">>
SubtypeOrder == <<"5710", "5712", "3">>
EmptyDict == [k \in {} |-> 0]

Keys(d, order) == SelectSeq(order, LAMBDA k : k \in DOMAIN d)

\* The (type_key, subtype) pairs of a day's vectors, in dictionary order.
RECURSIVE PairsFrom(_, _)
PairsFrom(d, types) ==
  IF types = <<>> THEN <<>>
  ELSE LET t == Head(types)
           subs == Keys(d[t], SubtypeOrder)
       IN [j \in 1..Len(subs) |-> <<t, subs[j]>>] \o PairsFrom(d, Tail(types))

PairsOf(d) == PairsFrom(d, Keys(d, TypeOrder))

\* Monday = 0 ... Sunday = 6; day number 0 is a Monday.
Weekday(daynum) == daynum % 7

VARIABLES
  now,             \* the clock: current day number in esconstants.TIMEZONE
  test_data,       \* ESAnalyze.test_data: type -> subtype -> vector
  train_data,      \* ESAnalyze._train_data: weekday -> type -> subtype -> vector
  test_date,       \* ESAnalyze.test_date (day number), -1 for None
  outliers,        \* ESAnalyze.outliers: type -> subtype -> list of hours
  outliers_flag,   \* ESAnalyze.outliers_flag
  amplitude_diff,  \* ESAnalyze._amplitude_diff
  trim_data,       \* data_clean's trim_data: type -> subtype -> <<low, high>>
  last_call,       \* the method that ran last, with the arguments it found
  day_data,        \* ESVectorize._day_data: the hits of the test day
  result_vectors,  \* ESVectorize._result_vectors: type -> rows of 25 ints
  day_vecs,        \* ESVectorize.day_vecs: type -> subtype -> vector
  vstatus,         \* "new", or how get_day_vectors ended
  store,           \* the log store: day number -> the hits of that day
  month_vecs,      \* get_avg_vectors' month_vecs: weekday and vectors per day
  grouped_vecs,    \* ESVectorize.grouped_vecs as get_avg_vectors assigned it
  astatus,         \* "new", or how get_avg_vectors ended
  fetched,         \* escontrol: the day whose hits were fetched as test day
  runs,            \* the outlier_detection runs so far: arguments and results
  worker_pc,       \* workers of the scoring loop: pair -> place in the body
  calls            \* number of method calls so far

vars == <<now, test_data, train_data, test_date, outliers, outliers_flag,
          amplitude_diff, trim_data, last_call, day_data, result_vectors,
          day_vecs, vstatus, store, month_vecs, grouped_vecs, astatus,
          fetched, runs, worker_pc, calls>>

\* The state of the ESAnalyze object and of the ESVectorize object.
analyze_vars == <<test_data, train_data, test_date, outliers, outliers_flag,
                  amplitude_diff, trim_data, last_call, runs, worker_pc,
                  calls>>

vectorize_vars == <<day_data, result_vectors, day_vecs, vstatus, store,
                    month_vecs, grouped_vecs, astatus, fetched>>

(***************************************************************************)
(* ESAnalyze.outlier_detection                                             *)
(***************************************************************************)
\* train[day][type_key][subtype] does not raise KeyError.
HasTrain(train, day, t, s) ==
  /\ day \in DOMAIN train
  /\ t \in DOMAIN train[day]
  /\ s \in DOMAIN train[day][t]

\* numpy.copy(test).astype(float64) with slot i taken from the training data.
TestTmp(test, train, i) == [test.v EXCEPT ![i] = train.v[i]]

\* HourSeq with the last hour left out (range(NUM_BUCKETS - 2)).
HourSeqShort == [j \in 1..(NUM_BUCKETS - 2) |-> j - 1]

\* range(esconstants.NUM_BUCKETS - 1) as a list.
HourSeq == [j \in 1..(NUM_BUCKETS - 1) |-> j - 1]

\* Outliers check 2: the hours whose replacement by the training value
\* lowers the difference by more than FFT_POINT_DIFF_THRESHOLD.
PointOutliers(test, train, d) ==
  LET trainfft == Fft(train.v)
      Hit(i) == RelGain(d, FftAmplitudeDiff(Fft(TestTmp(test, train, i)),
                                            trainfft),
                        FFT_POINT_DIFF_THRESHOLD)
  IN SelectSeq(HourSeq, Hit)

\* HitHours with the test "> 1" in place of ">= 1".
HitHoursAboveOne(test) ==
  SelectSeq([j \in 1..Cardinality(DOMAIN test.v) |-> j - 1],
            LAMBDA i : test.v[i] > FP)

\* The except KeyError branch: the hours with hits in the test data.
HitHours(test) ==
  SelectSeq([j \in 1..Cardinality(DOMAIN test.v) |-> j - 1],
            LAMBDA i : test.v[i] >= FP)

\* ESAnalyze._store_outlier_alerts
StoreOutlierAlerts(out, positions, t, s) ==
  LET withType == IF t \in DOMAIN out THEN out ELSE (t :> EmptyDict) @@ out
  IN [withType EXCEPT ![t] = (s :> positions) @@ withType[t]]

\* AfterCheck2 if test_tmp were the array of the test data itself: the loop
\* leaves the training values in it.
AfterCheck2Shared(test, train) == [test EXCEPT !.v = train.v]

\* test[type_key][subtype] after the loop of check 2: test_tmp is a
\* numpy.copy, an array of its own, so the assignments to test_tmp[i] do
\* not reach the test data.
AfterCheck2(test, train) == test

\* The calls of fftpack.fft in one pass of the loop body, by the array
\* they transform: fft(test[...]) stands before the lookup of
\* train[day][type_key][subtype] that raises KeyError, so it has run when
\* the handler is entered; check 2 transforms test_tmp.
FftCalls(found, checked, t, s) ==
  {<<t, s, "test">>}
    \cup (IF found THEN {<<t, s, "train">>} ELSE {})
    \cup (IF found /\ checked THEN {<<t, s, "test_tmp">>} ELSE {})

\* One pass of the loop body for the pair (t, s); acc carries outliers,
\* outliers_flag, _amplitude_diff, the test data and the transforms
\* computed so far.
ScorePair(acc, test, train, day, t, s) ==
  IF ~HasTrain(train, day, t, s)
  THEN [acc EXCEPT !.flag = TRUE,
                   !.ffts = @ \cup FftCalls(FALSE, FALSE, t, s),
                   !.out = StoreOutlierAlerts(acc.out, HitHours(test[t][s]),
                                              t, s)]
  ELSE LET d == FftAmplitudeDiff(Fft(test[t][s].v), Fft(train[day][t][s].v))
       IN IF FloatLess(d, FFT_TEST_DIFF_THRESHOLD)
          THEN [acc EXCEPT !.amp = d,
                           !.ffts = @ \cup FftCalls(TRUE, FALSE, t, s)]
          ELSE LET pos == PointOutliers(test[t][s], train[day][t][s], d)
                   after == AfterCheck2(test[t][s], train[day][t][s])
               IN IF pos # <<>>
                  THEN [acc EXCEPT !.amp = d, !.flag = TRUE,
                                   !.test[t][s] = after,
                                   !.ffts = @ \cup FftCalls(TRUE, TRUE, t, s),
                                   !.out = StoreOutlierAlerts(acc.out, pos,
                                                              t, s)]
                  ELSE [acc EXCEPT !.amp = d, !.test[t][s] = after,
                                   !.ffts = @ \cup FftCalls(TRUE, TRUE, t, s)]

RECURSIVE ScoreAll(_, _, _, _, _)
ScoreAll(acc, pairs, test, train, day) ==
  IF pairs = <<>> THEN acc
  ELSE ScoreAll(ScorePair(acc, test, train, day, Head(pairs)[1],
                          Head(pairs)[2]),
                Tail(pairs), test, train, day)

(***************************************************************************)
(* ESAnalyze.data_clean                                                    *)
(***************************************************************************)
\* The days of the training data that hold a vector for (t, s): the rows
\* that the first loop stacks into agg_data[t][s].
DaysWith(train, t, s) ==
  {d \in DOMAIN train : t \in DOMAIN train[d] /\ s \in DOMAIN train[d][t]}

RECURSIVE SumSlot(_, _, _, _, _)
SumSlot(train, days, t, s, i) ==
  IF days = {} THEN 0
  ELSE LET d == CHOOSE x \in days : TRUE
       IN train[d][t][s].v[i] + SumSlot(train, days \ {d}, t, s, i)

\* agg_data[t][s] after the second loop: the single row as it is, or
\* numpy.average(rows, axis=0).
AggVector(train, t, s) ==
  LET days == DaysWith(train, t, s)
  IN [i \in Hours |-> SumSlot(train, days, t, s, i) \div Cardinality(days)]

\* The k-th smallest (k = 0 is the minimum) of the values of x.
KthSmallest(x, k) ==
  CHOOSE y \in {x[i] : i \in DOMAIN x} :
    /\ Cardinality({i \in DOMAIN x : x[i] < y}) <= k
    /\ Cardinality({i \in DOMAIN x : x[i] <= y}) > k

\* numpy.percentile(x, q), linear interpolation between the two nearest
\* ranks of the sorted values.
Percentile(x, q) ==
  LET n == Cardinality(DOMAIN x)
      pos == q * (n - 1)
      lo == pos \div 100
      fr == pos % 100
      a == KthSmallest(x, lo)
      b == IF fr = 0 THEN a ELSE KthSmallest(x, lo + 1)
  IN a + ((b - a) * fr) \div 100

\* trim_data: type -> subtype -> <<low, high>> for every pair of every day.
TrimData(train) ==
  LET types == UNION {DOMAIN train[d] : d \in DOMAIN train}
      subs(t) == UNION {DOMAIN train[d][t] :
                          d \in {e \in DOMAIN train : t \in DOMAIN train[e]}}
  IN [t \in types |->
        [s \in subs(t) |->
           LET agg == AggVector(train, t, s)
           IN <<Percentile(agg, LOW_PC), Percentile(agg, HIGH_PC)>>]]

\* ClipSlot with the two comparisons exchanged.
ClipSlotSwapped(arr, i, band) ==
  IF arr.v[i] > band[1] THEN SetItem(arr, i, band[1])
  ELSE IF arr.v[i] < band[2] THEN SetItem(arr, i, band[2])
  ELSE arr

\* The haircut of one slot: the value is replaced by the bound it is
\* outside of, stored with the element type of the array.
ClipSlot(arr, i, band) ==
  IF arr.v[i] < band[1] THEN SetItem(arr, i, band[1])
  ELSE IF arr.v[i] > band[2] THEN SetItem(arr, i, band[2])
  ELSE arr

RECURSIVE ClipVector(_, _, _)
ClipVector(arr, i, band) ==
  IF i = Cardinality(DOMAIN arr.v) THEN arr
  ELSE ClipVector(ClipSlot(arr, i, band), i + 1, band)

\* The final loop over the training data.
ClipPass(train, trim) ==
  [d \in DOMAIN train |->
     [t \in DOMAIN train[d] |->
        [s \in DOMAIN train[d][t] |->
           ClipVector(train[d][t][s], 0, trim[t][s])]]]

(***************************************************************************)
(* ESVectorize: hits are dictionaries (records); "timestamp" stands for    *)
(* the '@timestamp' field, whose value is <<hour, offset>>: the hour of    *)
(* day as written in the string and the UTC offset written next to it.     *)
(***************************************************************************)
\* UTC offset of esconstants.TIMEZONE ('US/Eastern', standard time).
TIMEZONE == -5

None == "None"

\* The keys of a sequence in order of first occurrence (dict insertion
\* order).
RECURSIVE FirstSeen(_, _)
FirstSeen(keys, seen) ==
  IF keys = <<>> THEN <<>>
  ELSE IF Head(keys) \in seen THEN FirstSeen(Tail(keys), seen)
  ELSE <<Head(keys)>> \o FirstSeen(Tail(keys), seen \cup {Head(keys)})

\* The hit as _hits_by_key sees it: unwrapped from _source and, when the
\* key is the suricata signature id, replaced by its nested alert with the
\* outer timestamp copied in (hit.get gives None for a missing one).
Unwrap(hit, key) ==
  LET src == IF "_source" \in DOMAIN hit THEN hit._source ELSE hit
  IN IF key = "signature_id"
     THEN [f \in DOMAIN src.alert \cup {"timestamp"} |->
             IF f = "timestamp"
             THEN (IF "timestamp" \in DOMAIN src THEN src.timestamp ELSE None)
             ELSE src.alert[f]]
     ELSE src

\* Some hit[...] lookup of _hits_by_key raises KeyError.
HitsByKeyRaises(source_list, key) ==
  \E j \in 1..Len(source_list) :
    LET src == IF "_source" \in DOMAIN source_list[j]
               THEN source_list[j]._source ELSE source_list[j]
    IN \/ key = "signature_id" /\ "alert" \notin DOMAIN src
       \/ key \notin DOMAIN Unwrap(source_list[j], key)

\* ESVectorize._hits_by_key: the hits collated by hit[key]; order lists the
\* keys as the dictionary holds them.
HitsByKey(source_list, key) ==
  LET hits == [j \in 1..Len(source_list) |-> Unwrap(source_list[j], key)]
      order == FirstSeen([j \in 1..Len(hits) |-> hits[j][key]], {})
  IN [order |-> order,
      groups |-> [k \in {order[j] : j \in 1..Len(order)} |->
                    SelectSeq(hits, LAMBDA h : h[key] = k)]]

\* int(atype) and str(vector[24]) for the subtype identifiers.
IntOf == ("5710" :> 5710) @@ ("5712" :> 5712) @@ ("3" :> 3) @@ ("7" :> 7)
           @@ ("007" :> 7) @@ ("2001" :> 2001)

StrOf == (5710 :> "5710") @@ (5712 :> "5712") @@ (3 :> "3") @@ (7 :> "7")
           @@ (2001 :> "2001")

\* dateutil.parser.parse(...).time().hour: the hour as written; the UTC
\* offset of the string is dropped with the date.
ParsedHour(ts) == ts[1]

\* The hour of day of the same instant on a clock of esconstants.TIMEZONE.
ZoneHour(ts) == (ts[1] - ts[2] + TIMEZONE) % 24

\* _hourly_counts raises: a hit without a usable timestamp (KeyError, or
\* the parser on None) or an identifier that int() rejects (ValueError).
HourlyCountsRaises(hits_type) ==
  \/ \E k \in DOMAIN hits_type.groups :
       \E j \in 1..Len(hits_type.groups[k]) :
         \/ "timestamp" \notin DOMAIN hits_type.groups[k][j]
         \/ hits_type.groups[k][j].timestamp = None
  \/ \E k \in DOMAIN hits_type.groups : k \notin DOMAIN IntOf

\* ESVectorize._hourly_counts: one row per key, 24 counts and the
\* identifier in column 24.
HourlyCounts(hits_type) ==
  [i \in 1..Len(hits_type.order) |->
     LET hits == hits_type.groups[hits_type.order[i]]
     IN [h \in 0..(NUM_BUCKETS - 1) |->
           IF h = NUM_BUCKETS - 1 THEN IntOf[hits_type.order[i]]
           ELSE Cardinality({j \in 1..Len(hits) :
                               ParsedHour(hits[j].timestamp) = h})]]

\* The static dispatch table _LOGTYPE_MUNGE: the key each log type is
\* collated by.
LOGTYPE_MUNGE ==
  ("ossec" :> "rule_number") @@ ("syslog" :> "syslog_severity_code")
    @@ ("suricata" :> "signature_id")

\* _munge_suricata's loop: the hits whose event_type is 'alert'; the test
\* for an empty alert list sits inside the loop, so the function returns
\* None as soon as the first hit is not an alert.
IsAlert(hit) == "event_type" \in DOMAIN hit /\ hit.event_type = "alert"

SuricataAlerts(hits) ==
  IF IsAlert(Head(hits)) THEN SelectSeq(hits, IsAlert) ELSE None

\* The hits that the munge method of a log type collates and counts, None
\* when it returns None.
MungeInput(logtype, hits) ==
  IF logtype = "suricata" THEN SuricataAlerts(hits) ELSE hits

\* ESVectorize._munge_ossec, _munge_syslog, _munge_suricata
Munge(logtype, hits) ==
  HourlyCounts(HitsByKey(MungeInput(logtype, hits), LOGTYPE_MUNGE[logtype]))

MungeRaises(logtype, hits) ==
  /\ MungeInput(logtype, hits) # None
  /\ \/ HitsByKeyRaises(MungeInput(logtype, hits), LOGTYPE_MUNGE[logtype])
     \/ HourlyCountsRaises(HitsByKey(MungeInput(logtype, hits),
                                     LOGTYPE_MUNGE[logtype]))

\* ESVectorize._count_day: the vectors of the log types that have a munge
\* method and hits to count.
CountDayRaises(result_data) ==
  \/ HitsByKeyRaises(result_data, "type")
  \/ \E t \in DOMAIN HitsByKey(result_data, "type").groups :
       /\ t \in DOMAIN LOGTYPE_MUNGE
       /\ MungeRaises(t, HitsByKey(result_data, "type").groups[t])

CountDay(result_data) ==
  LET hits_day == HitsByKey(result_data, "type").groups
      counted == {t \in DOMAIN hits_day \cap DOMAIN LOGTYPE_MUNGE :
                    MungeInput(t, hits_day[t]) # None}
  IN [t \in counted |-> Munge(t, hits_day[t])]

\* ESVectorize._get_subtypes
GetSubtypes(vectors) ==
  [j \in 1..Len(vectors) |-> StrOf[vectors[j][NUM_BUCKETS - 1]]]

\* ESVectorize._get_vector: the first row with that identifier, without
\* its last column.
GetVector(vectors, subtype) ==
  LET j == CHOOSE j \in 1..Len(vectors) :
             /\ StrOf[vectors[j][NUM_BUCKETS - 1]] = subtype
             /\ \A l \in 1..(j - 1) :
                  StrOf[vectors[l][NUM_BUCKETS - 1]] # subtype
  IN IntArr([h \in Hours |-> vectors[j][h] * FP])

\* numpy.vstack((arr, vector)): a two-dimensional array, held as its rows.
VStack(arr, vector) ==
  IF "rows" \in DOMAIN arr
  THEN [arr EXCEPT !.rows = Append(arr.rows, vector.v)]
  ELSE [dtype |-> "int", rows |-> <<arr.v, vector.v>>]

\* The inner loop of _organize_vectors over the subtypes of one log type.
RECURSIVE OrganizeSubtypes(_, _, _)
OrganizeSubtypes(subtypes, vectors, outtype) ==
  IF subtypes = <<>> THEN outtype
  ELSE LET st == Head(subtypes)
           vec == GetVector(vectors, st)
       IN OrganizeSubtypes(
            Tail(subtypes), vectors,
            IF st \notin DOMAIN outtype THEN (st :> vec) @@ outtype
            ELSE [outtype EXCEPT ![st] = VStack(outtype[st], vec)])

\* OrganizeVectors that takes up only the log types the entry does not
\* hold yet.
OrganizeVectorsNewTypes(invecs, outdict) ==
  [t \in DOMAIN invecs \cup DOMAIN outdict |->
     IF t \in DOMAIN outdict THEN outdict[t]
     ELSE OrganizeSubtypes(GetSubtypes(invecs[t]), invecs[t], EmptyDict)]

\* ESVectorize._organize_vectors
OrganizeVectors(invecs, outdict) ==
  [t \in DOMAIN invecs \cup DOMAIN outdict |->
     IF t \in DOMAIN invecs
     THEN OrganizeSubtypes(GetSubtypes(invecs[t]), invecs[t],
                           IF t \in DOMAIN outdict THEN outdict[t]
                           ELSE EmptyDict)
     ELSE outdict[t]]

\* get_avg_vectors' list of dates: NUM_DAYS days, the newest TEST_DAY + 1
\* days before today.
Dates(today) ==
  [i \in 1..NUM_DAYS |-> today - (TEST_DAY + 1) - (i - 1)]

\* MonthVecs without the decrement of dayofweek for a dropped day.
RECURSIVE MonthVecsNoDecrement(_, _, _)
MonthVecsNoDecrement(dates, dayofweek, st) ==
  IF dates = <<>> THEN <<>>
  ELSE IF st[Head(dates)] = <<>>
       THEN MonthVecsNoDecrement(Tail(dates), dayofweek, st)
       ELSE <<[day |-> dayofweek, vecs |-> CountDay(st[Head(dates)])]>>
              \o MonthVecsNoDecrement(Tail(dates), (dayofweek - 1) % 7, st)

\* The query loop of get_avg_vectors: a day without hits is dropped, a day
\* with hits is counted and appended with the running dayofweek, which is
\* decremented on both paths.  month_vecs is held as one record per
\* retained day.
RECURSIVE MonthVecs(_, _, _)
MonthVecs(dates, dayofweek, st) ==
  IF dates = <<>> THEN <<>>
  ELSE IF st[Head(dates)] = <<>>
       THEN MonthVecs(Tail(dates), (dayofweek - 1) % 7, st)
       ELSE <<[day |-> dayofweek, vecs |-> CountDay(st[Head(dates)])]>>
              \o MonthVecs(Tail(dates), (dayofweek - 1) % 7, st)

\* _count_day raises for some day of the loop.
MonthVecsRaises(dates, st) ==
  \E i \in 1..Len(dates) :
    st[dates[i]] # <<>> /\ CountDayRaises(st[dates[i]])

\* _result_vectors when the loop ends or is left by an exception: the
\* vectors of the last day that was counted.
RECURSIVE LastVectors(_, _, _)
LastVectors(dates, st, rv) ==
  IF dates = <<>> THEN rv
  ELSE IF st[Head(dates)] = <<>> THEN LastVectors(Tail(dates), st, rv)
  ELSE IF CountDayRaises(st[Head(dates)]) THEN rv
  ELSE LastVectors(Tail(dates), st, CountDay(st[Head(dates)]))

\* The grouping loop: the vectors of each day are organized into the entry
\* of the day's weekday.
RECURSIVE GroupVecs(_, _)
GroupVecs(month, grouped) ==
  IF month = <<>> THEN grouped
  ELSE LET e == Head(month)
           g == IF e.day \in DOMAIN grouped THEN grouped
                ELSE (e.day :> EmptyDict) @@ grouped
       IN GroupVecs(Tail(month),
                    [g EXCEPT ![e.day] = OrganizeVectors(e.vecs, g[e.day])])

RECURSIVE SumRows(_, _)
SumRows(rows, h) ==
  IF rows = <<>> THEN 0 ELSE Head(rows)[h] + SumRows(Tail(rows), h)

\* numpy.average(arr, axis=0) of a stacked array.
Average(arr) ==
  FloatArr([h \in Hours |-> SumRows(arr.rows, h) \div Len(arr.rows)])

\* The averaging loop: an entry of one line is left as it is.
AverageAll(grouped) ==
  [d \in DOMAIN grouped |->
     [t \in DOMAIN grouped[d] |->
        [s \in DOMAIN grouped[d][t] |->
           IF "v" \in DOMAIN grouped[d][t][s] THEN grouped[d][t][s]
           ELSE Average(grouped[d][t][s])]]]

(***************************************************************************)
(* Bounds and inputs                                                       *)
(***************************************************************************)
MaxCount == 6   \* largest hourly count of a spike
MaxNow == 3     \* last day number the clock reaches
MaxCalls == 2   \* method calls on one ESAnalyze object

\* The days the log store is asked about: the oldest day of the window of
\* the first clock value up to the last clock value.
StoreDays == (TEST_DAY - (TEST_DAY + 1) - (NUM_DAYS - 1))..MaxNow

\* Hourly shapes of one day's counts.
Ones == [h \in Hours |-> 1]
Morn == [h \in Hours |-> IF h \in 6..9 THEN 2 ELSE 1]
Single == [h \in Hours |-> IF h = 9 THEN 2 ELSE 0]
Quiet == [h \in Hours |-> 0]
Spike(f, h, c) == [f EXCEPT ![h] = c]
Twice(f) == [h \in Hours |-> 2 * f[h]]

\* A day's count vector as _hourly_counts builds it (dtype=int).
Counts(f) == IntArr([h \in Hours |-> f[h] * FP])

\* numpy.average of the count vectors of two days of the same weekday.
Mean2(f, g) == FloatArr([h \in Hours |-> ((f[h] + g[h]) * FP) \div 2])

TestVecs ==
  {Counts(Ones), Counts(Morn), Counts(Single), Counts(Twice(Morn)),
   Counts(Spike(Ones, 10, 6)), Counts(Spike(Morn, 10, MaxCount)),
   Counts(Spike(Morn, 23, MaxCount))}

TrainVecs ==
  {Counts(Ones), Counts(Morn), Counts(Spike(Morn, 23, 0)),
   Mean2(Morn, Spike(Morn, 3, MaxCount))}

\* The vectors of one day: type -> subtype -> vector.
OnePair(t, s, vec) == (t :> (s :> vec))

TestSets ==
  {OnePair("ossec", "5710", tv) : tv \in TestVecs}
    \cup {OnePair("ossec", "5710", Counts(Spike(Morn, 3, 0)))
            @@ OnePair("syslog", "3", Counts(Single)),
          OnePair("syslog", "3", Counts(Quiet))}

\* The training vectors of weekday 0 and of weekday 1.
MondaySets == {OnePair("ossec", "5710", b) : b \in TrainVecs}

TuesdaySets ==
  {OnePair("ossec", "5710", Counts(Spike(Morn, 10, MaxCount))),
   OnePair("ossec", "5712", Counts(Morn)) @@ OnePair("syslog", "3", Counts(Ones))}

(***************************************************************************)
(* The ESAnalyze object: __init__, data_clean, outlier_detection           *)
(***************************************************************************)
Init ==
  /\ now = TEST_DAY
  /\ test_data \in TestSets
  /\ \E mon \in MondaySets, tue \in TuesdaySets :
       train_data = (0 :> mon) @@ (1 :> tue)
  /\ test_date = -1
  /\ outliers = EmptyDict
  /\ outliers_flag = FALSE
  /\ amplitude_diff = Fin(0)
  /\ trim_data = EmptyDict
  /\ last_call = [name |-> "init", test |-> test_data, train |-> train_data]
  /\ runs = <<>>
  /\ worker_pc = EmptyDict
  /\ calls = 0
  /\ day_data = <<>>
  /\ result_vectors = EmptyDict
  /\ day_vecs = EmptyDict
  /\ vstatus = "new"
  /\ store = [d \in StoreDays |-> <<>>]
  /\ fetched = now - TEST_DAY
  /\ month_vecs = <<>>
  /\ grouped_vecs = EmptyDict
  /\ astatus = "new"

\* The clock passes midnight.
Tick ==
  /\ now < MaxNow
  /\ now' = now + 1
  /\ UNCHANGED <<analyze_vars, vectorize_vars>>

DataClean ==
  /\ calls < MaxCalls
  /\ trim_data' = TrimData(train_data)
  /\ train_data' = ClipPass(train_data, trim_data')
  /\ last_call' = [name |-> "data_clean", test |-> test_data,
                   train |-> train_data]
  /\ calls' = calls + 1
  /\ UNCHANGED <<now, test_data, test_date, outliers, outliers_flag,
                 amplitude_diff, runs, worker_pc, vectorize_vars>>

OutlierDetection ==
  /\ calls < MaxCalls
  /\ LET date == now - TEST_DAY
         res == ScoreAll([out |-> EmptyDict, flag |-> FALSE,
                          amp |-> amplitude_diff, test |-> test_data,
                          ffts |-> {}],
                         PairsOf(test_data), test_data, train_data,
                         Weekday(date))
     IN /\ test_date' = date
        /\ outliers' = res.out
        /\ outliers_flag' = res.flag
        /\ amplitude_diff' = res.amp
        /\ test_data' = res.test
        /\ runs' = Append(runs, [date |-> date, test |-> test_data,
                                 train |-> train_data, out |-> res.out,
                                 flag |-> res.flag, ffts |-> res.ffts])
  /\ last_call' = [name |-> "outlier_detection", test |-> test_data,
                   train |-> train_data]
  /\ calls' = calls + 1
  /\ UNCHANGED <<now, train_data, trim_data, worker_pc, vectorize_vars>>

Next == Tick \/ DataClean \/ OutlierDetection

Spec == Init /\ [][Next]_vars

(***************************************************************************)
(* The ESVectorize object: __init__, get_day_vectors                       *)
(***************************************************************************)
MaxHits == 2    \* hits in the response of one day

\* Hits of the log store, as the fields of their _source.
WrittenHours == {3, 23}
WrittenOffsets == {TIMEZONE, 0}

OssecHits ==
  {[type |-> "ossec", rule_number |-> k, timestamp |-> <<h, off>>] :
     k \in {"5710", "5712"}, h \in WrittenHours, off \in WrittenOffsets}

SyslogHits ==
  {[type |-> "syslog", syslog_severity_code |-> "3", timestamp |-> <<3, off>>] :
     off \in WrittenOffsets}

SuricataHits ==
  {[type |-> "suricata", event_type |-> "alert",
    alert |-> [signature_id |-> "2001"], timestamp |-> <<3, 0>>],
   [type |-> "suricata", event_type |-> "dns", timestamp |-> <<3, 0>>]}

OtherHits ==
  {[type |-> "apache", timestamp |-> <<3, 0>>],
   [type |-> "ossec", timestamp |-> <<3, 0>>],
   [type |-> "ossec", rule_number |-> "5710"],
   [type |-> "ossec", rule_number |-> "7", timestamp |-> <<3, TIMEZONE>>],
   [type |-> "ossec", rule_number |-> "007", timestamp |-> <<23, TIMEZONE>>],
   [type |-> "ossec", rule_number |-> "sshd", timestamp |-> <<3, TIMEZONE>>]}

RawHits ==
  {[_source |-> h] : h \in OssecHits \cup SyslogHits \cup SuricataHits
                             \cup OtherHits}

SeqsUpTo(S, n) == UNION {[1..m -> S] : m \in 0..n}

InitVectorize ==
  /\ now = TEST_DAY
  /\ day_data \in SeqsUpTo(RawHits, MaxHits)
  /\ result_vectors = EmptyDict
  /\ day_vecs = EmptyDict
  /\ vstatus = "new"
  /\ store = [d \in StoreDays |-> <<>>]
  /\ fetched = now - TEST_DAY
  /\ month_vecs = <<>>
  /\ grouped_vecs = EmptyDict
  /\ astatus = "new"
  /\ test_data = EmptyDict
  /\ train_data = EmptyDict
  /\ test_date = -1
  /\ outliers = EmptyDict
  /\ outliers_flag = FALSE
  /\ amplitude_diff = Fin(0)
  /\ trim_data = EmptyDict
  /\ last_call = [name |-> "init", test |-> EmptyDict, train |-> EmptyDict]
  /\ runs = <<>>
  /\ worker_pc = EmptyDict
  /\ calls = 0

\* ESVectorize.get_day_vectors; an exception leaves day_vecs as it was.
GetDayVectors ==
  /\ vstatus = "new"
  /\ IF CountDayRaises(day_data)
     THEN /\ vstatus' = "raised"
          /\ UNCHANGED <<result_vectors, day_vecs>>
     ELSE /\ vstatus' = "ok"
          /\ result_vectors' = CountDay(day_data)
          /\ day_vecs' = OrganizeVectors(result_vectors', EmptyDict)
  /\ UNCHANGED <<now, day_data, store, month_vecs, grouped_vecs, astatus,
                 fetched, analyze_vars>>

NextVectorize == GetDayVectors

SpecVectorize == InitVectorize /\ [][NextVectorize]_vars

(***************************************************************************)
(* escontrol: the test day is fetched and vectorized, the baseline is      *)
(* built from the log store, and an ESAnalyze object cleans and scores     *)
(***************************************************************************)
\* The hits of one day of the log store.
LogA ==
  <<[_source |-> [type |-> "ossec", rule_number |-> "5710",
                  timestamp |-> <<3, TIMEZONE>>]]>>

LogB ==
  <<[_source |-> [type |-> "ossec", rule_number |-> "5712",
                  timestamp |-> <<23, TIMEZONE>>]],
    [_source |-> [type |-> "syslog", syslog_severity_code |-> "3",
                  timestamp |-> <<3, TIMEZONE>>]]>>

LogBad == <<[_source |-> [type |-> "ossec", timestamp |-> <<3, TIMEZONE>>]]>>

LogC ==
  <<[_source |-> [type |-> "ossec", rule_number |-> "5710",
                  timestamp |-> <<23, TIMEZONE>>]]>>

\* The days of the log store that may hold hits; every other day is empty.
ActiveDays == {-8, -3, -1, 0}

Stores ==
  {[d \in StoreDays |-> IF d \in ActiveDays THEN f[d] ELSE <<>>] :
     f \in {g \in [ActiveDays -> {<<>>, LogA, LogB, LogC, LogBad}] :
              /\ \A d \in ActiveDays : g[d] = LogBad => d = -3
              /\ \A d \in ActiveDays : g[d] = LogC => d \in {-8, -3}}}

\* date.today(), the date on the clock of the system's own timezone, minus
\* the date on the clock of esconstants.TIMEZONE at the same instant.
LocalSkews == {-1, 0, 1}

\* escontrol fetches the hits of date.today() - TEST_DAY.
InitMain ==
  /\ now = TEST_DAY
  /\ store \in Stores
  /\ \E skew \in LocalSkews : fetched = now + skew - TEST_DAY
  /\ day_data = store[fetched]
  /\ result_vectors = EmptyDict
  /\ day_vecs = EmptyDict
  /\ vstatus = "new"
  /\ month_vecs = <<>>
  /\ grouped_vecs = EmptyDict
  /\ astatus = "new"
  /\ test_data = EmptyDict
  /\ train_data = EmptyDict
  /\ test_date = -1
  /\ outliers = EmptyDict
  /\ outliers_flag = FALSE
  /\ amplitude_diff = Fin(0)
  /\ trim_data = EmptyDict
  /\ last_call = [name |-> "none", test |-> EmptyDict, train |-> EmptyDict]
  /\ runs = <<>>
  /\ worker_pc = EmptyDict
  /\ calls = 0

\* ESVectorize.get_avg_vectors, called after get_day_vectors; an exception
\* of _count_day leaves grouped_vecs as it was.
GetAvgVectors ==
  /\ vstatus = "ok"
  /\ astatus = "new"
  /\ LET dates == Dates(now)
         dayofweek == Weekday(now - (TEST_DAY + 1))
     IN /\ result_vectors' = LastVectors(dates, store, result_vectors)
        /\ IF MonthVecsRaises(dates, store)
           THEN /\ astatus' = "raised"
                /\ UNCHANGED <<month_vecs, grouped_vecs>>
           ELSE /\ astatus' = "ok"
                /\ month_vecs' = MonthVecs(dates, dayofweek, store)
                /\ grouped_vecs' = AverageAll(GroupVecs(month_vecs', EmptyDict))
  /\ UNCHANGED <<now, day_data, day_vecs, vstatus, store, fetched,
                 analyze_vars>>

\* ESAnalyze(day.day_vecs, day.grouped_vecs)
NewAnalyze ==
  /\ astatus = "ok"
  /\ last_call.name = "none"
  /\ test_data' = day_vecs
  /\ train_data' = grouped_vecs
  /\ test_date' = -1
  /\ outliers' = EmptyDict
  /\ outliers_flag' = FALSE
  /\ amplitude_diff' = Fin(0)
  /\ last_call' = [name |-> "init", test |-> day_vecs, train |-> grouped_vecs]
  /\ UNCHANGED <<now, trim_data, runs, worker_pc, calls, vectorize_vars>>

\* result.data_clean()
MainDataClean == last_call.name = "init" /\ DataClean

\* result.outlier_detection()
MainOutlierDetection == last_call.name = "data_clean" /\ OutlierDetection

NextMain ==
  \/ Tick
  \/ GetDayVectors
  \/ GetAvgVectors
  \/ NewAnalyze
  \/ MainDataClean
  \/ MainOutlierDetection

SpecMain == InitMain /\ [][NextMain]_vars

(***************************************************************************)
(* Properties of the hourly counts                                         *)
(***************************************************************************)
\* The subtype a hit is counted under: the identifier in the key field of
\* its log type, as _get_subtypes writes it.
SubtypeOf(src) ==
  IF src.type = "suricata" THEN StrOf[IntOf[src.alert.signature_id]]
  ELSE StrOf[IntOf[src[LOGTYPE_MUNGE[src.type]]]]

\* The hits of the day that belong to the pair (t, s).
HitsOfPair(t, s) ==
  {j \in 1..Len(day_data) :
     LET src == day_data[j]._source
     IN /\ src.type = t
        /\ src.type = "suricata" => "alert" \in DOMAIN src
        /\ SubtypeOf(src) = s}

\* C10: slot h of a pair's vector is the number of the pair's hits whose
\* instant falls in hour h of a clock of the reference timezone, whatever
\* UTC offset the timestamp is written with; the slots sum to the number of
\* the pair's hits.
C10_SlotsCountZoneHours ==
  vstatus = "ok" =>
    \A t \in DOMAIN day_vecs :
      \A s \in {x \in DOMAIN day_vecs[t] : "v" \in DOMAIN day_vecs[t][x]} :
        \A h \in 0..23 :
          day_vecs[t][s].v[h] =
            FP * Cardinality({j \in HitsOfPair(t, s) :
                                ZoneHour(day_data[j]._source.timestamp) = h})

(***************************************************************************)
(* Properties of outlier_detection                                         *)
(***************************************************************************)
\* outlier_detection was the last method to run, so test_data, _train_data
\* and the results are those of that run.
Scored == last_call.name = "outlier_detection"

\* The (type_key, subtype) pairs of the test day.
TestPairs ==
  {p \in (DOMAIN test_data) \X {SubtypeOrder[j] : j \in 1..Len(SubtypeOrder)} :
     p[2] \in DOMAIN test_data[p[1]]}

\* The weekday whose training data the last run compared with.
BaselineDay == Weekday(test_date)

Baselined(p) == HasTrain(train_data, BaselineDay, p[1], p[2])

\* The difference D between the test vector and the baseline of a pair.
Metric(p) ==
  FftAmplitudeDiff(Fft(test_data[p[1]][p[2]].v),
                   Fft(train_data[BaselineDay][p[1]][p[2]].v))

\* D_i: the difference once slot i of the test vector holds the baseline's
\* value.
MetricWithout(p, i) ==
  FftAmplitudeDiff(
    Fft([test_data[p[1]][p[2]].v EXCEPT
           ![i] = train_data[BaselineDay][p[1]][p[2]].v[i]]),
    Fft(train_data[BaselineDay][p[1]][p[2]].v))

Recorded(p) == p[1] \in DOMAIN outliers /\ p[2] \in DOMAIN outliers[p[1]]

\* The hours stored for a pair in the outlier record.
RecordedHours(p) ==
  IF Recorded(p)
  THEN {outliers[p[1]][p[2]][j] : j \in 1..Len(outliers[p[1]][p[2]])}
  ELSE {}

C2_NoBaselineAlerts ==
  Scored =>
    \A p \in TestPairs :
      ~Baselined(p) =>
        /\ Recorded(p)
        /\ outliers_flag = TRUE
        /\ RecordedHours(p) = {h \in 0..23 : test_data[p[1]][p[2]].v[h] # 0}
        /\ \A j \in 1..(Len(outliers[p[1]][p[2]]) - 1) :
             outliers[p[1]][p[2]][j] < outliers[p[1]][p[2]][j + 1]

\* The test vector [0]*9 + [2] + [0]*14 without a baseline gives [9].
C2_Witness ==
  /\ Scored
  /\ \E p \in TestPairs :
       /\ ~Baselined(p)
       /\ test_data[p[1]][p[2]] = Counts(Single)
       /\ outliers[p[1]][p[2]] = <<9>>
       /\ outliers_flag

\* The pair's difference is a number strictly below 0.5.
BelowThreshold(p) ==
  Baselined(p) /\ Metric(p).kind = "fin" /\ 2 * Metric(p).x < DQ

\* C3: a pair whose difference is below 0.5 gets no entry in the outlier
\* record, and the flag is only ever set by a pair that is not below 0.5.
C3_BelowThresholdSilent ==
  Scored =>
    /\ \A p \in TestPairs : BelowThreshold(p) => ~Recorded(p)
    /\ outliers_flag => \E p \in TestPairs : ~BelowThreshold(p)

\* A run whose pairs differ from their baselines, all by less than 0.5.
C3_Witness ==
  /\ Scored
  /\ \A p \in TestPairs : BelowThreshold(p) /\ Metric(p).x > 0
  /\ outliers = EmptyDict
  /\ ~outliers_flag

\* C4: a run never completes with the difference of a pair being inf or
\* nan (a zero-magnitude normalizing component would have been an error).
C4_DegenerateIsError ==
  Scored => \A p \in TestPairs : Baselined(p) => Metric(p).kind = "fin"

\* C5: a test vector equal to its baseline has difference 0 and no hour
\* recorded.
C5_IdenticalIsZero ==
  Scored =>
    \A p \in TestPairs :
      (Baselined(p) /\ test_data[p[1]][p[2]].v
                         = train_data[BaselineDay][p[1]][p[2]].v) =>
        /\ Metric(p) = Fin(0)
        /\ RecordedHours(p) = {}

\* C6: 24 ones as baseline and ones with a 6 at hour 10 as test vector give
\* the outlier list [10].
C6_SpikeExample ==
  Scored =>
    \A p \in TestPairs :
      (/\ Baselined(p)
       /\ test_data[p[1]][p[2]].v = Counts(Spike(Ones, 10, 6)).v
       /\ train_data[BaselineDay][p[1]][p[2]].v = Counts(Ones).v) =>
        Recorded(p) /\ outliers[p[1]][p[2]] = <<10>>

\* C7: two runs of outlier_detection on the same test vectors and the same
\* training data give the same outlier record and flag.
C7_Deterministic ==
  \A i, j \in 1..Len(runs) :
    (runs[i].test = runs[j].test /\ runs[i].train = runs[j].train) =>
      (runs[i].out = runs[j].out /\ runs[i].flag = runs[j].flag)

(***************************************************************************)
(* Properties of data_clean                                                *)
(***************************************************************************)
\* data_clean was the last method to run, so trim_data holds the bands that
\* _train_data was clipped with.
Cleaned == last_call.name = "data_clean"

\* The (weekday, type_key, subtype) entries of the training data.
TrainEntries ==
  {e \in (DOMAIN train_data) \X {TypeOrder[j] : j \in 1..Len(TypeOrder)}
           \X {SubtypeOrder[j] : j \in 1..Len(SubtypeOrder)} :
     HasTrain(train_data, e[1], e[2], e[3])}

\* C8: after data_clean the band of every pair has low <= high and every
\* stored training value of the pair lies in [low, high].
C8_ClippedInsideBand ==
  Cleaned =>
    \A e \in TrainEntries :
      LET band == trim_data[e[2]][e[3]]
          arr == train_data[e[1]][e[2]][e[3]]
      IN /\ band[1] <= band[2]
         /\ \A i \in 0..23 : band[1] <= arr.v[i] /\ arr.v[i] <= band[2]

\* C9: clipping the clipped training data again with the same bands changes
\* no value.
C9_ClipIdempotent ==
  Cleaned => ClipPass(train_data, trim_data) = train_data

\* A data_clean run that did clip some value.
C9_Witness ==
  /\ Cleaned
  /\ train_data # last_call.train
  /\ ClipPass(train_data, trim_data) = train_data

(***************************************************************************)
(* Properties of get_day_vectors                                           *)
(***************************************************************************)
\* The rows of an entry of day_vecs: the vector itself, or the rows of a
\* stacked array.
EntryRows(e) == IF "v" \in DOMAIN e THEN <<e.v>> ELSE e.rows

\* The suricata records of the day whose event_type is 'alert'.
AlertHits ==
  {j \in 1..Len(day_data) :
     /\ day_data[j]._source.type = "suricata"
     /\ IsAlert(day_data[j]._source)}

\* C11: of the suricata records exactly the alerts are counted, wherever
\* they stand among the other suricata records of the day; the day has
\* suricata vectors if and only if it has an alert, and a day of suricata
\* records only never fails.
C11_AlertsCounted ==
  vstatus # "new" =>
    /\ (\A j \in 1..Len(day_data) : day_data[j]._source.type = "suricata")
         => vstatus = "ok"
    /\ vstatus = "ok" =>
         /\ ("suricata" \in DOMAIN day_vecs) <=> (AlertHits # {})
         /\ \A j \in AlertHits :
              LET s == SubtypeOf(day_data[j]._source)
              IN /\ "suricata" \in DOMAIN day_vecs
                 /\ s \in DOMAIN day_vecs["suricata"]
                 /\ \A h \in Hours :
                      EntryRows(day_vecs["suricata"][s])[1][h] =
                        FP * Cardinality(
                          {i \in AlertHits :
                             /\ SubtypeOf(day_data[i]._source) = s
                             /\ ParsedHour(day_data[i]._source.timestamp)
                                  = h})

\* A record of a counted log type that has its subcategory key and its
\* timestamp.
Complete(src) ==
  /\ src.type \in {"ossec", "syslog"}
  /\ LOGTYPE_MUNGE[src.type] \in DOMAIN src
  /\ "timestamp" \in DOMAIN src

\* C12: a record without its timestamp or its subcategory key is left out
\* and the day is still normalized: get_day_vectors does not fail and
\* counts every complete ossec and syslog record in the slot of its hour.
C12_IncompleteRecordSkipped ==
  vstatus # "new" =>
    /\ vstatus = "ok"
    /\ \A j \in {i \in 1..Len(day_data) : Complete(day_data[i]._source)} :
         LET src == day_data[j]._source
             s == SubtypeOf(src)
         IN /\ src.type \in DOMAIN day_vecs
            /\ s \in DOMAIN day_vecs[src.type]
            /\ EntryRows(day_vecs[src.type][s])[1][ParsedHour(src.timestamp)]
                 >= FP

\* A count vector of one day: one line of 24 whole, non-negative counts for
\* the hours 0..23.
IsCountVector(e) ==
  /\ "v" \in DOMAIN e
  /\ DOMAIN e.v = 0..23
  /\ \A h \in DOMAIN e.v : e.v[h] >= 0 /\ e.v[h] % FP = 0

\* C13: every entry of day_vecs, and every vector that get_avg_vectors
\* takes from a day of the window to stack it into grouped_vecs, is one
\* vector of 24 non-negative counts for the hours 0..23, the identifier
\* being the key and not a slot.
C13_VectorsHave24Slots ==
  /\ vstatus = "ok" =>
       \A t \in DOMAIN day_vecs :
         \A s \in DOMAIN day_vecs[t] : IsCountVector(day_vecs[t][s])
  /\ astatus = "ok" =>
       \A i \in 1..Len(month_vecs) :
         \A t \in DOMAIN month_vecs[i].vecs :
           \A j \in 1..Len(month_vecs[i].vecs[t]) :
             IsCountVector(
               GetVector(month_vecs[i].vecs[t],
                         GetSubtypes(month_vecs[i].vecs[t])[j]))

(***************************************************************************)
(* Properties of get_avg_vectors                                           *)
(***************************************************************************)
\* The days of the window that have hits, newest first.
KeptDays(today) == SelectSeq(Dates(today), LAMBDA d : store[d] # <<>>)

\* The day d of the log store gives a vector for the pair (t, s).
ProducedOn(d, t, s) ==
  /\ t \in DOMAIN CountDay(store[d])
  /\ \E j \in 1..Len(CountDay(store[d])[t]) :
       GetSubtypes(CountDay(store[d])[t])[j] = s

RECURSIVE SumDays(_, _, _, _)
SumDays(days, t, s, h) ==
  IF days = {} THEN 0
  ELSE LET d == CHOOSE x \in days : TRUE
       IN GetVector(CountDay(store[d])[t], s).v[h]
            + SumDays(days \ {d}, t, s, h)

BaselinePairs(b) ==
  UNION {UNION {{<<w, t, s>> : s \in DOMAIN b[w][t]} : t \in DOMAIN b[w]} :
           w \in DOMAIN b}

\* C18: a pair is in the baseline under weekday w exactly when a retained
\* day tagged w gave a vector for it, and the baseline that data_clean
\* leaves has the pairs of the baseline it was given, no more and no less.
C18_BaselinePairs ==
  /\ astatus = "ok" =>
       BaselinePairs(grouped_vecs) =
         UNION {UNION {{<<month_vecs[i].day, t,
                         GetSubtypes(month_vecs[i].vecs[t])[j]>> :
                          j \in 1..Len(month_vecs[i].vecs[t])} :
                         t \in DOMAIN month_vecs[i].vecs} :
                  i \in 1..Len(month_vecs)}
  /\ last_call.name # "none" =>
       BaselinePairs(train_data) = BaselinePairs(grouped_vecs)

\* data_clean has run on a baseline in which a pair is held under one
\* weekday and missing under another, and a weekday holds two pairs.
C18_Witness ==
  /\ last_call.name = "data_clean"
  /\ \E x, y \in BaselinePairs(train_data) :
       /\ x[1] # y[1]
       /\ <<y[1], x[2], x[3]>> \notin BaselinePairs(train_data)
  /\ \E x, y \in BaselinePairs(train_data) : x[1] = y[1] /\ x # y

(***************************************************************************)
(* Properties of the outlier record                                        *)
(***************************************************************************)
\* C14: after outlier_detection the flag is set exactly when some pair has
\* a non-empty list of positions in the outlier record, and no pair of the
\* record has an empty list, whichever of the three outcomes a pair had.
C14_FlagIffNonEmpty ==
  Scored =>
    /\ outliers_flag <=> (\E p \in TestPairs : RecordedHours(p) # {})
    /\ \A p \in TestPairs : Recorded(p) => outliers[p[1]][p[2]] # <<>>

\* C15: every pair of the outlier record comes with the difference D that
\* was computed for it; the one place where the object keeps a difference
\* is _amplitude_diff.
C15_RecordHoldsMetric ==
  Scored =>
    \A p \in TestPairs :
      Recorded(p) => Baselined(p) /\ amplitude_diff = Metric(p)

\* C16: outlier_detection leaves the test vectors, the training vectors
\* and the ESVectorize object as they were; it writes test_date, outliers,
\* outliers_flag and _amplitude_diff only.
C16_ArgumentsUnchanged ==
  [][(calls' = calls + 1 /\ last_call'.name = "outlier_detection") =>
       /\ test_data' = test_data
       /\ train_data' = train_data
       /\ trim_data' = trim_data
       /\ UNCHANGED vectorize_vars
     ]_vars

\* A run in which a pair went through the loop of check 2 and got hours
\* recorded, and the test data are those the run was given.
C16_Witness ==
  /\ Scored
  /\ \E p \in TestPairs : Baselined(p) /\ RecordedHours(p) # {}
  /\ test_data = last_call.test

(***************************************************************************)
(* Properties of the difference D                                          *)
(***************************************************************************)
\* D for the pair p when slot h of its test vector holds the count a.
MetricWith(p, h, a) ==
  FftAmplitudeDiff(
    Fft([test_data[p[1]][p[2]].v EXCEPT ![h] = a * FP]),
    Fft(train_data[BaselineDay][p[1]][p[2]].v))

\* Hour h is flagged for the pair p when slot h of its test vector holds
\* the count a: D is not below the threshold and the baseline's value in
\* slot h lowers it by more than the point threshold.
FlaggedWith(p, h, a) ==
  /\ ~FloatLess(MetricWith(p, h, a), FFT_TEST_DIFF_THRESHOLD)
  /\ RelGain(MetricWith(p, h, a), MetricWithout(p, h),
             FFT_POINT_DIFF_THRESHOLD)

\* C19: with the baseline and the other slots as they are, the test count
\* of an hour gives a D at least as large as every smaller count of that
\* hour gives, and an hour that a smaller count gets flagged is recorded.
C19_SpikeMonotone ==
  Scored =>
    \A p \in TestPairs :
      Baselined(p) /\ Metric(p).kind = "fin" =>
        \A h \in Hours :
          \A a \in 0..((test_data[p[1]][p[2]].v[h] \div FP) - 1) :
            /\ MetricWith(p, h, a).kind = "fin" =>
                 MetricWith(p, h, a).x <= Metric(p).x
            /\ FlaggedWith(p, h, a) => h \in RecordedHours(p)

\* C20: for a baseline whose component 4 is not zero, D is
\* (sum over k in 0..4 of | |T[k]| - |B[k]| | / 2^k) / 5 / |B[4]|, here
\* with numerator and denominator multiplied by 16; it is not negative, and
\* it is 0 when the five magnitudes of T and B are equal.
C20_AmplitudeDiffFormula ==
  Scored =>
    \A p \in TestPairs :
      Baselined(p) =>
        LET T == Fft(test_data[p[1]][p[2]].v)
            B == Fft(train_data[BaselineDay][p[1]][p[2]].v)
            d == Metric(p)
            sum16 == 16 * Abs(T[0] - B[0]) + 8 * Abs(T[1] - B[1])
                       + 4 * Abs(T[2] - B[2]) + 2 * Abs(T[3] - B[3])
                       + Abs(T[4] - B[4])
        IN B[4] # 0 =>
             /\ d.kind = "fin"
             /\ d.x >= 0
             /\ d.x = (sum16 * DQ) \div (16 * 5 * B[4])
             /\ (\A k \in 0..4 : T[k] = B[k]) => d.x = 0

\* A run scored a pair whose baseline has a non-zero component 4, whose D
\* is positive and whose test and baseline differ in component 0.
C20_Witness ==
  /\ Scored
  /\ \E p \in TestPairs :
       /\ Baselined(p)
       /\ Fft(train_data[BaselineDay][p[1]][p[2]].v)[4] # 0
       /\ Metric(p).kind = "fin"
       /\ Metric(p).x > 0
       /\ Fft(test_data[p[1]][p[2]].v)[0]
            # Fft(train_data[BaselineDay][p[1]][p[2]].v)[0]

(***************************************************************************)
(* Properties of the subcategory identifiers                               *)
(***************************************************************************)
\* The identifier of a complete record, as the record holds it.
IdentifierOf(src) == src[LOGTYPE_MUNGE[src.type]]

\* C27: on a day whose ossec and syslog records are all complete and that
\* has no suricata record, get_day_vectors does not fail whatever the
\* identifiers are, every identifier is a key of its log type in day_vecs,
\* the entry of a key is one vector of 24 counts, and its slots count the
\* records that hold exactly that identifier.
C27_IdentifiersKeptApart ==
  (/\ vstatus # "new"
   /\ \A j \in 1..Len(day_data) :
        day_data[j]._source.type \in DOMAIN LOGTYPE_MUNGE
          => Complete(day_data[j]._source)) =>
    /\ vstatus = "ok"
    /\ \A j \in {i \in 1..Len(day_data) : Complete(day_data[i]._source)} :
         LET src == day_data[j]._source
             same == {i \in 1..Len(day_data) :
                        /\ Complete(day_data[i]._source)
                        /\ day_data[i]._source.type = src.type
                        /\ IdentifierOf(day_data[i]._source)
                             = IdentifierOf(src)}
         IN /\ src.type \in DOMAIN day_vecs
            /\ IdentifierOf(src) \in DOMAIN day_vecs[src.type]
            /\ IsCountVector(day_vecs[src.type][IdentifierOf(src)])
            /\ \A h \in Hours :
                 day_vecs[src.type][IdentifierOf(src)].v[h] =
                   FP * Cardinality(
                          {i \in same :
                             ParsedHour(day_data[i]._source.timestamp) = h})

(***************************************************************************)
(* Properties of the order of the computations                             *)
(***************************************************************************)
\* The calls of fftpack.fft of the last run of outlier_detection.
LastFfts == runs[Len(runs)].ffts

\* C23: for a pair without training data for the test weekday the run
\* computes no Fourier transform, neither of the test vector nor of
\* anything else.
C23_NoBaselineNoFft ==
  Scored =>
    \A p \in TestPairs :
      ~Baselined(p) => \A c \in LastFfts : <<c[1], c[2]>> # p

(***************************************************************************)
(* Properties of the baseline build                                        *)
(***************************************************************************)
\* data_clean has run on the baseline that get_avg_vectors built.
BaselineCleaned ==
  astatus = "ok" /\ last_call.name \in {"data_clean", "outlier_detection"}

\* The retained days (entries of month_vecs) that gave a vector for the
\* pair (t, s), and those of them that are tagged with the weekday w.
DaysOfPair(t, s) ==
  {i \in 1..Len(month_vecs) :
     /\ t \in DOMAIN month_vecs[i].vecs
     /\ \E j \in 1..Len(month_vecs[i].vecs[t]) :
          GetSubtypes(month_vecs[i].vecs[t])[j] = s}

DaysOfWeekday(w, t, s) == {i \in DaysOfPair(t, s) : month_vecs[i].day = w}

\* The value x moved into the band <<low, high>>.
Clamp(x, band) ==
  IF x < band[1] THEN band[1] ELSE IF x > band[2] THEN band[2] ELSE x

\* The sum over the retained days ix of slot h of the day's raw vector for
\* the pair (t, s), each value first moved into the band.
RECURSIVE SumClamped(_, _, _, _, _)
SumClamped(ix, t, s, h, band) ==
  IF ix = {} THEN 0
  ELSE LET i == CHOOSE x \in ix : TRUE
       IN Clamp(GetVector(month_vecs[i].vecs[t], s).v[h], band)
            + SumClamped(ix \ {i}, t, s, h, band)

\* C21: the baseline vector of a weekday and pair is the element-wise mean
\* of the raw vectors of that weekday's retained days, each clamped into
\* the pair's band before the mean is taken.
C21_ClipBeforeAverage ==
  BaselineCleaned =>
    \A x \in BaselinePairs(train_data) :
      LET w == x[1]
          t == x[2]
          s == x[3]
          on == DaysOfWeekday(w, t, s)
      IN \A h \in Hours :
           train_data[w][t][s].v[h] =
             SumClamped(on, t, s, h, trim_data[t][s]) \div Cardinality(on)

\* The element-wise mean of the raw vectors of all retained days that gave
\* the pair (t, s); the band of the sum is wide enough to clamp nothing.
MeanOfDays(t, s) ==
  [h \in Hours |->
     SumClamped(DaysOfPair(t, s), t, s, h, <<-1, NUM_DAYS * MaxHits * FP>>)
       \div Cardinality(DaysOfPair(t, s))]

\* C22: the band of a pair is the 1st and the 99th percentile of the
\* element-wise mean of the vectors of all retained days that gave the
\* pair, every day with the same weight whatever its weekday.
C22_BandFromMeanOfDays ==
  BaselineCleaned =>
    \A t \in DOMAIN trim_data :
      \A s \in DOMAIN trim_data[t] :
        trim_data[t][s] = <<Percentile(MeanOfDays(t, s), LOW_PC),
                            Percentile(MeanOfDays(t, s), HIGH_PC)>>

(***************************************************************************)
(* Properties of the dates                                                 *)
(***************************************************************************)
\* C25: the dates that get_avg_vectors asks the log store for are the
\* NUM_DAYS days that end on the day before the fetched test day, so the
\* test day is not among them, whatever the system's own date was at the
\* fetch.
C25_WindowEndsBeforeTestDay ==
  [][(astatus = "new" /\ astatus' # "new") =>
       Dates(now) = [i \in 1..NUM_DAYS |-> fetched - i]
     ]_vars

\* C26: the weekday whose baseline outlier_detection compares with is the
\* weekday of the day whose hits were fetched as the test day.
C26_WeekdayOfFetchedDay ==
  Scored => Weekday(test_date) = Weekday(fetched)

(***************************************************************************)
(* The loop of outlier_detection with one worker per pair.  A worker runs  *)
(* the loop body of its pair on the shared ESAnalyze object; the body      *)
(* keeps the difference D in the field self._amplitude_diff between the    *)
(* line that computes it and the lines that read it.  A worker takes two   *)
(* steps, the second starting at the first read of the field; the steps of *)
(* the model are a part of the interleavings that statement-by-statement   *)
(* workers have.                                                           *)
(***************************************************************************)
\* Test sets of two pairs, and Monday's baselines for them.
WorkerTestSets ==
  {OnePair("ossec", "5710", tv) @@ OnePair("syslog", "3", sv) :
     tv \in TestVecs,
     sv \in {Counts(Morn), Counts(Twice(Morn)),
             Counts(Spike(Morn, 10, MaxCount))}}

WorkerMondaySets ==
  {OnePair("ossec", "5710", b) @@ OnePair("syslog", "3", Counts(Morn)) :
     b \in TrainVecs}
    \cup {OnePair("ossec", "5710", Counts(Ones))}

InitWorkers ==
  /\ now = TEST_DAY
  /\ test_data \in WorkerTestSets
  /\ \E mon \in WorkerMondaySets : train_data = (0 :> mon)
  /\ test_date = -1
  /\ outliers = EmptyDict
  /\ outliers_flag = FALSE
  /\ amplitude_diff = Fin(0)
  /\ trim_data = EmptyDict
  /\ last_call = [name |-> "init", test |-> test_data, train |-> train_data]
  /\ runs = <<>>
  /\ worker_pc = EmptyDict
  /\ calls = 0
  /\ day_data = <<>>
  /\ result_vectors = EmptyDict
  /\ day_vecs = EmptyDict
  /\ vstatus = "new"
  /\ store = [d \in StoreDays |-> <<>>]
  /\ fetched = now - TEST_DAY
  /\ month_vecs = <<>>
  /\ grouped_vecs = EmptyDict
  /\ astatus = "new"

\* The lines before the loop: the date, and the reset of the results.
WorkersStart ==
  /\ worker_pc = EmptyDict
  /\ test_date' = now - TEST_DAY
  /\ outliers_flag' = FALSE
  /\ outliers' = EmptyDict
  /\ worker_pc' = [p \in {PairsOf(test_data)[j] :
                            j \in 1..Len(PairsOf(test_data))} |-> "todo"]
  /\ UNCHANGED <<now, test_data, train_data, amplitude_diff, trim_data,
                 last_call, runs, calls, vectorize_vars>>

\* The body up to the assignment of self._amplitude_diff, or, when the
\* lookup of the baseline raises KeyError, the whole handler.
WorkerMetric(p) ==
  /\ p \in DOMAIN worker_pc
  /\ worker_pc[p] = "todo"
  /\ LET day == Weekday(test_date)
         t == p[1]
         s == p[2]
     IN IF HasTrain(train_data, day, t, s)
        THEN /\ amplitude_diff' =
                  FftAmplitudeDiff(Fft(test_data[t][s].v),
                                   Fft(train_data[day][t][s].v))
             /\ worker_pc' = [worker_pc EXCEPT ![p] = "scored"]
             /\ UNCHANGED <<outliers, outliers_flag>>
        ELSE /\ outliers_flag' = TRUE
             /\ outliers' = StoreOutlierAlerts(outliers,
                                               HitHours(test_data[t][s]),
                                               t, s)
             /\ worker_pc' = [worker_pc EXCEPT ![p] = "done"]
             /\ UNCHANGED amplitude_diff
  /\ UNCHANGED <<now, test_data, train_data, test_date, trim_data, last_call,
                 runs, calls, vectorize_vars>>

\* The rest of the body: check 1 and check 2 read self._amplitude_diff,
\* whichever worker assigned it last, and the positions are stored.
WorkerCheck(p) ==
  /\ p \in DOMAIN worker_pc
  /\ worker_pc[p] = "scored"
  /\ LET day == Weekday(test_date)
         t == p[1]
         s == p[2]
         pos == IF FloatLess(amplitude_diff, FFT_TEST_DIFF_THRESHOLD)
                THEN <<>>
                ELSE PointOutliers(test_data[t][s], train_data[day][t][s],
                                   amplitude_diff)
     IN IF pos # <<>>
        THEN /\ outliers_flag' = TRUE
             /\ outliers' = StoreOutlierAlerts(outliers, pos, t, s)
        ELSE UNCHANGED <<outliers, outliers_flag>>
  /\ worker_pc' = [worker_pc EXCEPT ![p] = "done"]
  /\ UNCHANGED <<now, test_data, train_data, test_date, amplitude_diff,
                 trim_data, last_call, runs, calls, vectorize_vars>>

NextWorkers ==
  \/ WorkersStart
  \/ \E p \in DOMAIN worker_pc : WorkerMetric(p)
  \/ \E p \in DOMAIN worker_pc : WorkerCheck(p)

SpecWorkers == InitWorkers /\ [][NextWorkers]_vars

(***************************************************************************)
(* Properties of the pairs taken one by one                                *)
(***************************************************************************)
\* Every worker has finished the body of its pair.
WorkersDone ==
  /\ worker_pc # EmptyDict
  /\ \A p \in DOMAIN worker_pc : worker_pc[p] = "done"

\* What the loop of outlier_detection leaves when it takes the pairs one
\* after the other.
Sequential ==
  ScoreAll([out |-> EmptyDict, flag |-> FALSE, amp |-> Fin(0),
            test |-> test_data, ffts |-> {}],
           PairsOf(test_data), test_data, train_data, Weekday(test_date))

\* The training vectors of the pair (t, s) alone.
OnlyPair(train, t, s) ==
  [d \in DaysWith(train, t, s) |-> OnePair(t, s, train[d][t][s])]

====
